---- MODULE Spec2Model ----
(***************************************************************************)
(* Model of the Focus (Domination) rules engine: FocusGame, Board, Player. *)
(* The state is the 6x6 board of stacks, the two players' reserve and      *)
(* capture counters, the turn holder and the game status, together with    *)
(* the last call made on the public API and the value it returned.         *)
(***************************************************************************)
EXTENDS Integers, Sequences, FiniteSets, TLC

VARIABLES board, reserved, captured, current_player_turn, game_state,
          call, result, moves, driver

vars == <<board, reserved, captured, current_player_turn, game_state,
          call, result, moves, driver>>

\* the part of the state that belongs to the program (not the call log)
core == <<board, reserved, captured, current_player_turn, game_state>>

----------------------------------------------------------------------------
(* Program constants *)

BoardSize == 6

(* Bounds of the exploration *)

\* accepted calls explored by the driver that plays a game to its end
MaxMoves == 10
\* accepted calls explored by the driver that probes the argument checks
MaxProbes == 3

----------------------------------------------------------------------------
(* The two players of the game under test: FocusGame(('p1','A'),('p2','B')) *)

player1 == [name |-> "p1", color |-> "A"]
player2 == [name |-> "p2", color |-> "B"]

Names == {player1.name, player2.name}

\* FocusGame._players: name -> Player; get_color() of the player found
get_color == (player1.name :> player1.color) @@ (player2.name :> player2.color)

Coords == 0 .. (BoardSize - 1)
Cells == Coords \X Coords

\* The callers of the API.  "play" plays on two neighbouring tiles of row 0
\* for up to MaxMoves accepted calls; "probe" tries a wider set of arguments
\* (a name that is no player, a tile off the board, tiles two columns apart
\* and off the row, negative and larger counts) for up to MaxProbes accepted
\* calls.
Drivers == {"play", "probe"}

PlayerArgs(d) ==
    IF d = "play" THEN {"p1", "p2"} ELSE {"p1", "p2", "p3"}
FromArgs(d) ==
    IF d = "play" THEN {<<0, 1>>, <<0, 2>>}
    ELSE {<<0, 1>>, <<0, 2>>, <<1, 2>>}
ToArgs(d) ==
    IF d = "play" THEN {<<0, 1>>, <<0, 2>>}
    ELSE {<<0, 1>>, <<0, 3>>, <<0, 6>>}
ReserveArgs(d) ==
    IF d = "play" THEN {<<0, 2>>, <<0, 6>>} ELSE {<<0, 2>>, <<0, -1>>}
CountArgs(d) ==
    IF d = "play" THEN {0, 1} ELSE {-1, 0, 1, 2}
Budget(d) ==
    IF d = "play" THEN MaxMoves ELSE MaxProbes

----------------------------------------------------------------------------
(* Python list slicing s[start:stop] on a sequence, indices 0-based, with  *)
(* the normalisation of negative and out-of-range indices Python applies.  *)

PyIndex(i, len) ==
    IF i < 0 THEN (IF i + len < 0 THEN 0 ELSE i + len)
    ELSE (IF i > len THEN len ELSE i)

PySlice(s, start, stop) ==
    SubSeq(s, PyIndex(start, Len(s)) + 1, PyIndex(stop, Len(s)))

\* s[-n:]  (for n = 0 this is s[0:], the whole list)
PyTail(s, n) ==
    IF n = 0 THEN s ELSE PySlice(s, -n, Len(s))

Abs(x) == IF x < 0 THEN -x ELSE x

----------------------------------------------------------------------------
(* Board *)

\* variant: the odd rows are not flipped
InitialRow_unflipped(i, p1_color, p2_color) ==
    <<p1_color, p1_color, p2_color, p2_color, p1_color, p1_color>>

\* Board.__init__: the pair-wise checkerboard of single-piece stacks
InitialRow(i, p1_color, p2_color) ==
    IF i % 2 = 0
    THEN <<p1_color, p1_color, p2_color, p2_color, p1_color, p1_color>>
    ELSE <<p2_color, p2_color, p1_color, p1_color, p2_color, p2_color>>

board_layout(p1_color, p2_color) ==
    [cell \in Cells |->
        <<InitialRow(cell[1], p1_color, p2_color)[cell[2] + 1]>>]

\* Board.return_stack: False for a coordinate off the board, else the stack
return_stack(b, tile_coord) ==
    IF 5 < tile_coord[1] \/ tile_coord[1] < 0 THEN FALSE
    ELSE IF 5 < tile_coord[2] \/ tile_coord[2] < 0 THEN FALSE
    ELSE b[tile_coord]

\* Board.modify_tile
modify_tile(b, tile_coord, new_stack) ==
    [b EXCEPT ![tile_coord] = new_stack]

----------------------------------------------------------------------------
(* FocusGame *)

\* variant: the win needs more than six captured pieces
determine_game_state_above_six(cap) ==
    IF cap[player1.name] > 6 THEN "PLAYER 1 WINS"
    ELSE IF cap[player2.name] > 6 THEN "PLAYER 2 WINS"
    ELSE "IN PROGRESS"

\* FocusGame.determine_game_state
determine_game_state(cap) ==
    IF cap[player1.name] >= 6 THEN "PLAYER 1 WINS"
    ELSE IF cap[player2.name] >= 6 THEN "PLAYER 2 WINS"
    ELSE "IN PROGRESS"

show_pieces(b, tile_coord) == return_stack(b, tile_coord)

\* variant: the turn check compares with the first player, not the turn holder
basic_move_validation_first_player(player_name, from_coordinates, to_coordinates, number_of_pieces) ==
    LET all_coords == <<from_coordinates[1], from_coordinates[2],
                        to_coordinates[1], to_coordinates[2]>>
        src == show_pieces(board, from_coordinates)
    IN  IF \E i \in 1..4 : all_coords[i] \notin {0, 1, 2, 3, 4, 5} THEN FALSE
        ELSE IF game_state # "IN PROGRESS" THEN FALSE
        ELSE IF player_name # player1.name THEN FALSE
        ELSE IF number_of_pieces = 1 /\ Len(src) = 0 THEN FALSE
        ELSE IF Len(src) = 0 THEN FALSE
        ELSE IF src[Len(src)] # get_color[player_name] THEN FALSE
        ELSE IF number_of_pieces < 0 \/ number_of_pieces > Len(src) THEN FALSE
        ELSE IF Abs(to_coordinates[1] - from_coordinates[1]) # number_of_pieces
                /\ Abs(to_coordinates[2] - from_coordinates[2]) # number_of_pieces
             THEN FALSE
        ELSE IF to_coordinates[1] # from_coordinates[1]
                /\ to_coordinates[2] # to_coordinates[2]
             THEN FALSE
        ELSE TRUE

\* variant: the owner of the top piece of the source is not checked
basic_move_validation_any_top(player_name, from_coordinates, to_coordinates, number_of_pieces) ==
    LET all_coords == <<from_coordinates[1], from_coordinates[2],
                        to_coordinates[1], to_coordinates[2]>>
        src == show_pieces(board, from_coordinates)
    IN  IF \E i \in 1..4 : all_coords[i] \notin {0, 1, 2, 3, 4, 5} THEN FALSE
        ELSE IF game_state # "IN PROGRESS" THEN FALSE
        ELSE IF player_name # current_player_turn THEN FALSE
        ELSE IF number_of_pieces = 1 /\ Len(src) = 0 THEN FALSE
        ELSE IF Len(src) = 0 THEN FALSE
        ELSE IF number_of_pieces < 0 \/ number_of_pieces > Len(src) THEN FALSE
        ELSE IF Abs(to_coordinates[1] - from_coordinates[1]) # number_of_pieces
                /\ Abs(to_coordinates[2] - from_coordinates[2]) # number_of_pieces
             THEN FALSE
        ELSE IF to_coordinates[1] # from_coordinates[1]
                /\ to_coordinates[2] # to_coordinates[2]
             THEN FALSE
        ELSE TRUE

\* FocusGame.basic_move_validation, the checks in the order of the code
basic_move_validation(player_name, from_coordinates, to_coordinates, number_of_pieces) ==
    LET all_coords == <<from_coordinates[1], from_coordinates[2],
                        to_coordinates[1], to_coordinates[2]>>
        src == show_pieces(board, from_coordinates)
    IN  IF \E i \in 1..4 : all_coords[i] \notin {0, 1, 2, 3, 4, 5} THEN FALSE
        ELSE IF game_state # "IN PROGRESS" THEN FALSE
        ELSE IF player_name # current_player_turn THEN FALSE
        ELSE IF number_of_pieces = 1 /\ Len(src) = 0 THEN FALSE
        ELSE IF Len(src) = 0 THEN FALSE
        ELSE IF src[Len(src)] # get_color[player_name] THEN FALSE
        ELSE IF number_of_pieces < 0 \/ number_of_pieces > Len(src) THEN FALSE
        ELSE IF Abs(to_coordinates[1] - from_coordinates[1]) # number_of_pieces
                /\ Abs(to_coordinates[2] - from_coordinates[2]) # number_of_pieces
             THEN FALSE
        ELSE IF to_coordinates[1] # from_coordinates[1]
                /\ to_coordinates[2] # to_coordinates[2]
             THEN FALSE
        ELSE TRUE

\* the loop of FocusGame.resolve_stacks: pieces input_stack[i .. cnt-1]
\* (0-based) of the mover's color go to reserve, the others to captured
RECURSIVE resolve_loop(_, _, _, _, _, _)
resolve_loop(input_stack, i, cnt, color, res, cap) ==
    IF i < cnt
    THEN IF input_stack[i + 1] = color
         THEN resolve_loop(input_stack, i + 1, cnt, color, res + 1, cap)
         ELSE resolve_loop(input_stack, i + 1, cnt, color, res, cap + 1)
    ELSE [res |-> res, cap |-> cap]

\* variant: the stack kept is the bottom five pieces, input_stack[:5]
resolve_stacks_keeps_bottom(input_stack, player_name, res, cap) ==
    LET pieces_to_resolve_cnt == Len(input_stack) - 5
        counted == resolve_loop(input_stack, 0, pieces_to_resolve_cnt,
                                get_color[player_name],
                                res[player_name], cap[player_name])
    IN  [new_stack |-> PySlice(input_stack, 0, 5),
         res |-> [res EXCEPT ![player_name] = counted.res],
         cap |-> [cap EXCEPT ![player_name] = counted.cap]]

\* variant: the resolved pieces are counted for the player who did not move
resolve_stacks_credits_opponent(input_stack, player_name, res, cap) ==
    LET pieces_to_resolve_cnt == Len(input_stack) - 5
        opponent == CHOOSE q \in Names : q # player_name
        counted == resolve_loop(input_stack, 0, pieces_to_resolve_cnt,
                                get_color[player_name],
                                res[opponent], cap[opponent])
    IN  [new_stack |-> PySlice(input_stack, pieces_to_resolve_cnt, Len(input_stack)),
         res |-> [res EXCEPT ![opponent] = counted.res],
         cap |-> [cap EXCEPT ![opponent] = counted.cap]]

\* FocusGame.resolve_stacks: the new stack and the mover's counters
resolve_stacks(input_stack, player_name, res, cap) ==
    LET pieces_to_resolve_cnt == Len(input_stack) - 5
        counted == resolve_loop(input_stack, 0, pieces_to_resolve_cnt,
                                get_color[player_name],
                                res[player_name], cap[player_name])
    IN  [new_stack |-> PySlice(input_stack, pieces_to_resolve_cnt, Len(input_stack)),
         res |-> [res EXCEPT ![player_name] = counted.res],
         cap |-> [cap EXCEPT ![player_name] = counted.cap]]

\* variant: overflow is resolved only above 6 pieces
settle_above_six(new_stack, player_name, res, cap) ==
    IF Len(new_stack) > 6
    THEN resolve_stacks(new_stack, player_name, res, cap)
    ELSE [new_stack |-> new_stack, res |-> res, cap |-> cap]

\* the tail shared by single_move, multiple_move and reserved_move:
\* resolve the grown destination stack when it is taller than 5
settle(new_stack, player_name, res, cap) ==
    IF Len(new_stack) > 5
    THEN resolve_stacks(new_stack, player_name, res, cap)
    ELSE [new_stack |-> new_stack, res |-> res, cap |-> cap]

\* FocusGame.single_move: board and counters after the move
single_move(player_name, from_coordinates, to_coordinates) ==
    LET src == show_pieces(board, from_coordinates)
        old_stack == PySlice(src, 0, Len(src) - 1)
        grown == Append(show_pieces(board, to_coordinates), get_color[player_name])
        s == settle(grown, player_name, reserved, captured)
    IN  [board |-> modify_tile(modify_tile(board, from_coordinates, old_stack),
                               to_coordinates, s.new_stack),
         res |-> s.res, cap |-> s.cap]

\* FocusGame.multiple_move: board and counters after the move
multiple_move(player_name, from_coordinates, to_coordinates, number_of_pieces) ==
    LET src == show_pieces(board, from_coordinates)
        old_stack == PySlice(src, 0, Len(src) - number_of_pieces)
        pieces_to_move == PyTail(src, number_of_pieces)
        grown == show_pieces(board, to_coordinates) \o pieces_to_move
        s == settle(grown, player_name, reserved, captured)
    IN  [board |-> modify_tile(modify_tile(board, from_coordinates, old_stack),
                               to_coordinates, s.new_stack),
         res |-> s.res, cap |-> s.cap]

\* variant: both branches of the hand-over give the turn to the second player
next_turn_always_second(turn) ==
    IF turn = player1.name THEN player2.name ELSE player2.name

\* the turn hand-over at the end of move_piece and reserved_move
next_turn(turn) ==
    IF turn = player1.name THEN player2.name ELSE player1.name

\* f'{name} wins'
wins_message == (player1.name :> "p1 wins") @@ (player2.name :> "p2 wins")

\* a call that returns before it touched anything
untouched(value) ==
    [result |-> value, board |-> board, reserved |-> reserved,
     captured |-> captured, turn |-> current_player_turn, state |-> game_state]

\* variant: the message is built from the turn holder before the hand-over
move_piece_names_mover(player_name, from_coordinates, to_coordinates, number_of_pieces) ==
    IF ~basic_move_validation(player_name, from_coordinates,
                              to_coordinates, number_of_pieces)
    THEN untouched("False")
    ELSE LET m == IF number_of_pieces = 1
                  THEN single_move(player_name, from_coordinates, to_coordinates)
                  ELSE multiple_move(player_name, from_coordinates,
                                     to_coordinates, number_of_pieces)
             turn == next_turn(current_player_turn)
             state == determine_game_state(m.cap)
         IN  [result |-> IF state \in {"PLAYER 1 WINS", "PLAYER 2 WINS"}
                         THEN wins_message[current_player_turn]
                         ELSE "successfully moved",
              board |-> m.board, reserved |-> m.res, captured |-> m.cap,
              turn |-> turn, state |-> state]

\* FocusGame.move_piece: the returned value and the state it leaves
move_piece(player_name, from_coordinates, to_coordinates, number_of_pieces) ==
    IF ~basic_move_validation(player_name, from_coordinates,
                              to_coordinates, number_of_pieces)
    THEN untouched("False")
    ELSE LET m == IF number_of_pieces = 1
                  THEN single_move(player_name, from_coordinates, to_coordinates)
                  ELSE multiple_move(player_name, from_coordinates,
                                     to_coordinates, number_of_pieces)
             turn == next_turn(current_player_turn)
             state == determine_game_state(m.cap)
         IN  [result |-> IF state \in {"PLAYER 1 WINS", "PLAYER 2 WINS"}
                         THEN wins_message[turn]
                         ELSE "successfully moved",
              board |-> m.board, reserved |-> m.res, captured |-> m.cap,
              turn |-> turn, state |-> state]

\* variant: play_from_reserve takes the piece from the captured count
execute_reserve_takes_captured(player_name, to_coordinates, played) ==
    LET grown == Append(show_pieces(board, to_coordinates),
                        get_color[player_name])
        s == settle(grown, player_name, reserved,
                    [captured EXCEPT ![player_name] = @ - 1])
        turn == next_turn(current_player_turn)
        state == determine_game_state(s.cap)
    IN  [result |-> IF state \in {"PLAYER 1 WINS", "PLAYER 2 WINS"}
                    THEN wins_message[turn]
                    ELSE "True",
         board |-> modify_tile(board, to_coordinates, s.new_stack),
         reserved |-> s.res, captured |-> s.cap,
         turn |-> turn, state |-> state]

\* FocusGame.reserved_move, lines 273-292: the piece is played, the stack
\* resolved, the turn handed over and the status recomputed; played is the
\* reserve after play_from_reserve()
execute_reserve(player_name, to_coordinates, played) ==
    LET grown == Append(show_pieces(board, to_coordinates),
                        get_color[player_name])
        s == settle(grown, player_name, played, captured)
        turn == next_turn(current_player_turn)
        state == determine_game_state(s.cap)
    IN  [result |-> IF state \in {"PLAYER 1 WINS", "PLAYER 2 WINS"}
                    THEN wins_message[turn]
                    ELSE "True",
         board |-> modify_tile(board, to_coordinates, s.new_stack),
         reserved |-> s.res, captured |-> s.cap,
         turn |-> turn, state |-> state]

\* variant: play_from_reserve() runs before the turn check
reserved_move_plays_first(player_name, to_coordinates) ==
    IF player_name \notin Names THEN untouched("KeyError")
    ELSE IF reserved[player_name] = 0 THEN untouched("False")
    ELSE LET played == [reserved EXCEPT ![player_name] = @ - 1]
         IN  IF player_name # current_player_turn
             THEN [untouched("False") EXCEPT !.reserved = played]
             ELSE IF \E i \in 1..2 : to_coordinates[i] \notin {0, 1, 2, 3, 4, 5}
             THEN [untouched("False") EXCEPT !.reserved = played]
             ELSE execute_reserve(player_name, to_coordinates, played)

\* variant: the reserve is not checked before a piece is played from it
reserved_move_unchecked_reserve(player_name, to_coordinates) ==
    IF player_name \notin Names THEN untouched("KeyError")
    ELSE IF player_name # current_player_turn THEN untouched("False")
    ELSE IF \E i \in 1..2 : to_coordinates[i] \notin {0, 1, 2, 3, 4, 5}
         THEN untouched("False")
    ELSE execute_reserve(player_name, to_coordinates,
                         [reserved EXCEPT ![player_name] = @ - 1])

\* variant: a piece is played from reserve only onto an empty tile
reserved_move_empty_only(player_name, to_coordinates) ==
    IF player_name \notin Names THEN untouched("KeyError")
    ELSE IF reserved[player_name] = 0 THEN untouched("False")
    ELSE IF player_name # current_player_turn THEN untouched("False")
    ELSE IF \E i \in 1..2 : to_coordinates[i] \notin {0, 1, 2, 3, 4, 5}
         THEN untouched("False")
    ELSE IF Len(show_pieces(board, to_coordinates)) # 0 THEN untouched("False")
    ELSE execute_reserve(player_name, to_coordinates,
                         [reserved EXCEPT ![player_name] = @ - 1])

\* FocusGame.reserved_move: the returned value and the state it leaves.
\* self._players[player_name] raises KeyError for a name that is no player.
reserved_move(player_name, to_coordinates) ==
    IF player_name \notin Names THEN untouched("KeyError")
    ELSE IF reserved[player_name] = 0 THEN untouched("False")
    ELSE IF player_name # current_player_turn THEN untouched("False")
    ELSE IF \E i \in 1..2 : to_coordinates[i] \notin {0, 1, 2, 3, 4, 5}
         THEN untouched("False")
    ELSE execute_reserve(player_name, to_coordinates,
                         [reserved EXCEPT ![player_name] = @ - 1])

----------------------------------------------------------------------------
(* The calls on the API *)

\* values a call returns (or raises) without having played
Refusals == {"False", "KeyError"}

\* the state a call leaves; accepted calls are counted against the budget
Leave(o) ==
    /\ (o.result \notin Refusals) => moves < Budget(driver)
    /\ result' = o.result
    /\ board' = o.board
    /\ reserved' = o.reserved
    /\ captured' = o.captured
    /\ current_player_turn' = o.turn
    /\ game_state' = o.state
    /\ moves' = IF o.result \in Refusals THEN moves ELSE moves + 1
    /\ UNCHANGED driver

CallMovePiece(player_name, from_coordinates, to_coordinates, number_of_pieces) ==
    /\ call' = [op |-> "move_piece", player |-> player_name,
                from |-> from_coordinates, to |-> to_coordinates,
                n |-> number_of_pieces]
    /\ Leave(move_piece(player_name, from_coordinates, to_coordinates,
                        number_of_pieces))

CallReservedMove(player_name, to_coordinates) ==
    /\ call' = [op |-> "reserved_move", player |-> player_name,
                from |-> to_coordinates, to |-> to_coordinates, n |-> 1]
    /\ Leave(reserved_move(player_name, to_coordinates))

\* FocusGame.__init__ / Player.__init__ : the state of a new game
Init ==
    /\ board = board_layout(player1.color, player2.color)
    /\ reserved = [p \in Names |-> 0]
    /\ captured = [p \in Names |-> 0]
    /\ current_player_turn = player1.name
    /\ game_state = "IN PROGRESS"
    /\ call = [op |-> "new_game", player |-> player1.name,
               from |-> <<0, 0>>, to |-> <<0, 0>>, n |-> 0]
    /\ result = "None"
    /\ moves = 0
    /\ driver \in Drivers

Next ==
    \/ \E p \in PlayerArgs(driver), f \in FromArgs(driver),
          t \in ToArgs(driver), n \in CountArgs(driver) :
          CallMovePiece(p, f, t, n)
    \/ \E p \in PlayerArgs(driver), t \in ReserveArgs(driver) :
          CallReservedMove(p, t)

Spec == Init /\ [][Next]_vars

----------------------------------------------------------------------------
(* Vocabulary of the properties.  A step of Spec that changes vars is one  *)
(* call: call' holds its arguments, result' the value it returned, the     *)
(* unprimed variables the state it was made in.                            *)

Accepted == result \in {"successfully moved", "True", "p1 wins", "p2 wins"}
AcceptedMove == call.op = "move_piece" /\ Accepted
AcceptedReserve == call.op = "reserved_move" /\ Accepted

OnBoard(coord) == coord[1] \in 0..5 /\ coord[2] \in 0..5

RECURSIVE SumLen(_, _)
SumLen(b, cells) ==
    IF cells = {} THEN 0
    ELSE LET c == CHOOSE x \in cells : TRUE
         IN  Len(b[c]) + SumLen(b, cells \ {c})

TotalPieces ==
    SumLen(board, Cells) + reserved["p1"] + reserved["p2"]
        + captured["p1"] + captured["p2"]

\* number of the first k pieces of stack that have (own) / have not the color
CountColor(stack, k, color, own) ==
    Cardinality({i \in 1..k : (stack[i] = color) = own})

----------------------------------------------------------------------------
\* C1: win states are terminal: a call made in a state whose status is
\* 'PLAYER 1 WINS' or 'PLAYER 2 WINS' is rejected and leaves the board, the
\* counters, the turn holder and the status unchanged.
C1_WinIsTerminal ==
    [][game_state # "IN PROGRESS" => (result' = "False" /\ UNCHANGED core)]_vars

\* C2: a rejected operation leaves all state untouched: when move_piece or
\* reserved_move returns False, the board, both reserves, both capture counts,
\* the turn holder and the status are what they were before the call.
C2_RejectedUntouched ==
    [][result' = "False" => UNCHANGED core]_vars

\* a player with pieces in reserve was turned away while the other player
\* held the turn, after some moves had been played
C2_Witness ==
    /\ result = "False"
    /\ call.op = "reserved_move"
    /\ call.player \in Names
    /\ reserved[call.player] > 0
    /\ moves > 0

\* C3: every accepted move_piece has 1 <= number_of_pieces <= size of the
\* source stack (so 0, a negative or a too large count is rejected).
C3_CountInRange ==
    [][AcceptedMove' =>
          (1 <= call'.n /\ call'.n <= Len(board[call'.from]))]_vars

\* C4: piece conservation: the pieces on the 36 stacks plus both reserves plus
\* both capture counts are 36 in every state reached from a new game.
C4_Conservation == TotalPieces = 36

\* C5: every accepted move_piece is a straight move of length
\* number_of_pieces: the row changes by exactly that much and the column is
\* unchanged, or the column changes by that much and the row is unchanged.
C5_StraightLine ==
    [][AcceptedMove' =>
          LET dr == Abs(call'.to[1] - call'.from[1])
              dc == Abs(call'.to[2] - call'.from[2])
          IN  \/ dr = call'.n /\ dc = 0
              \/ dc = call'.n /\ dr = 0]_vars

\* C6: turn enforcement: a move_piece or reserved_move call made by the player
\* who does not hold the turn is rejected and the state is unchanged.
C6_TurnEnforced ==
    [][(call'.player \in Names /\ call'.player # current_player_turn) =>
          (result' = "False" /\ UNCHANGED core)]_vars

\* the player not holding the turn asked to move a stack topped by the own
\* color along the row, while the game was in progress, and was turned away
C6_Witness ==
    /\ result = "False"
    /\ call.op = "move_piece"
    /\ call.player \in Names
    /\ call.player # current_player_turn
    /\ game_state = "IN PROGRESS"
    /\ OnBoard(call.from) /\ OnBoard(call.to)
    /\ Len(board[call.from]) > 0
    /\ board[call.from][Len(board[call.from])] = get_color[call.player]
    /\ call.n = 1
    /\ call.from[1] = call.to[1]
    /\ Abs(call.to[2] - call.from[2]) = 1

\* C7: source ownership: move_piece is rejected when the source stack is empty
\* or its top piece is not of the requesting player's color; every accepted
\* move_piece takes from a non-empty stack topped by the mover's color.
C7_SourceOwned ==
    [][/\ AcceptedMove' =>
            /\ Len(board[call'.from]) > 0
            /\ board[call'.from][Len(board[call'.from])] = get_color[call'.player]
       /\ (/\ call'.op = "move_piece"
           /\ call'.player \in Names
           /\ OnBoard(call'.from)
           /\ \/ Len(board[call'.from]) = 0
              \/ board[call'.from][Len(board[call'.from])] # get_color[call'.player])
          => result' = "False"]_vars

\* the turn holder asked to move one piece along the row from a stack topped
\* by the other color, while the game was in progress, and was turned away
C7_Witness ==
    /\ result = "False"
    /\ call.op = "move_piece"
    /\ call.player = current_player_turn
    /\ game_state = "IN PROGRESS"
    /\ OnBoard(call.from) /\ OnBoard(call.to)
    /\ Len(board[call.from]) > 0
    /\ board[call.from][Len(board[call.from])] # get_color[call.player]
    /\ call.n = 1
    /\ call.from[1] = call.to[1]
    /\ Abs(call.to[2] - call.from[2]) = 1

\* C8: overflow resolution: when an accepted call grows the destination to a
\* stack of size s > 5 (the old destination followed by the pieces the call
\* puts on it), then with k = s - 5 the destination ends as the top 5 pieces of
\* that stack in order, the mover's reserve (after the played piece left it,
\* for reserved_move) grows by the number of the bottom k pieces of the mover's
\* color and the mover's capture count by the number of the other k pieces.
C8_Overflow ==
    [][Accepted' =>
          LET p == call'.player
              src == board[call'.from]
              put == IF call'.op = "reserved_move" THEN <<get_color[p]>>
                     ELSE IF call'.n = 0 THEN src
                     ELSE SubSeq(src, Len(src) - call'.n + 1, Len(src))
              tall == board[call'.to] \o put
              k == Len(tall) - 5
              base == IF call'.op = "reserved_move"
                      THEN reserved[p] - 1 ELSE reserved[p]
          IN  Len(tall) > 5 =>
                /\ board'[call'.to] = SubSeq(tall, k + 1, Len(tall))
                /\ reserved'[p] = base + CountColor(tall, k, get_color[p], TRUE)
                /\ captured'[p] = captured[p]
                                    + CountColor(tall, k, get_color[p], FALSE)]_vars

\* a piece played from reserve onto a tile left a stack of five there, and the
\* player who played it has captured pieces
C8_Witness ==
    /\ AcceptedReserve
    /\ Len(board[call.to]) = 5
    /\ captured[call.player] > 0
    /\ reserved[call.player] > 0

\* C9: win detection: in every state the status is 'PLAYER 1 WINS' exactly
\* when player 1 has captured 6 or more, 'PLAYER 2 WINS' exactly when player 1
\* has captured fewer than 6 and player 2 has captured 6 or more, and
\* 'IN PROGRESS' exactly when both have captured 5 or fewer.
C9_WinDetection ==
    /\ (game_state = "PLAYER 1 WINS") <=> (captured["p1"] >= 6)
    /\ (game_state = "PLAYER 2 WINS") <=> (captured["p1"] < 6 /\ captured["p2"] >= 6)
    /\ (game_state = "IN PROGRESS") <=> (captured["p1"] <= 5 /\ captured["p2"] <= 5)

\* player 2 has won with exactly six captured pieces
C9_Witness ==
    /\ game_state = "PLAYER 2 WINS"
    /\ captured["p2"] = 6

\* C10: when a call returns '<name> wins', the named player has captured at
\* least six pieces.
C10_WinnerNamed ==
    /\ result = "p1 wins" => captured["p1"] >= 6
    /\ result = "p2 wins" => captured["p2"] >= 6

\* C11: the turn is advanced before the win check: when an accepted call
\* leaves the status in a win state, the name in the returned '<name> wins'
\* is the new turn holder, the player who did not make the call.
C11_WinnerIsNewHolder ==
    (Accepted /\ game_state \in {"PLAYER 1 WINS", "PLAYER 2 WINS"}) =>
        \/ result = "p1 wins" /\ current_player_turn = "p1" /\ call.player = "p2"
        \/ result = "p2 wins" /\ current_player_turn = "p2" /\ call.player = "p1"

\* player 1 moved a stack and won; the call returned player 2's name
C11_Witness ==
    /\ AcceptedMove
    /\ call.player = "p1"
    /\ game_state = "PLAYER 1 WINS"
    /\ result = "p2 wins"

\* C12: turn alternation: one of the two players holds the turn in every
\* state, player 1 in the initial state, and after every accepted call by a
\* player the other player holds it, win or not.
C12_TurnAlternates ==
    /\ current_player_turn = "p1"
    /\ [](current_player_turn \in Names)
    /\ [][Accepted' =>
            /\ call'.player = current_player_turn
            /\ current_player_turn' \in Names \ {call'.player}]_vars

\* player 2 was handed the turn by the move that made player 1 win
C12_Witness ==
    /\ AcceptedMove
    /\ game_state # "IN PROGRESS"
    /\ captured[call.player] >= 6
    /\ current_player_turn = "p2"
    /\ call.player = "p1"

C14_StackHeight ==
    /\ Cardinality(DOMAIN board) = 36
    /\ \A cell \in DOMAIN board : Len(board[cell]) <= 5

\* a move put a piece on a tile that is at the limit afterwards, and the
\* mover holds captured pieces
C14_Witness ==
    /\ AcceptedMove
    /\ call.n = 1
    /\ Len(board[call.to]) = 5
    /\ captured[call.player] > 0

\* C15: both players' reserve and capture counts are never negative; no
\* sequence of reserved_move calls drives a reserve below 0.
C15_CountersNonNegative ==
    \A p \in Names : reserved[p] >= 0 /\ captured[p] >= 0

\* the turn holder played the last piece of the reserve
C15_Witness ==
    /\ AcceptedReserve
    /\ reserved[call.player] = 0

\* C16: the state after construction: in even rows columns 0, 1, 4, 5 hold
\* one piece of player 1's color and columns 2, 3 one of player 2's, in odd
\* rows the reverse; 18 pieces each, reserves and captures 0, status
\* 'IN PROGRESS', player 1 holds the turn.
C16_InitialLayout ==
    call.op = "new_game" =>
        /\ \A r \in 0..5, c \in 0..5 :
              board[<<r, c>>] = IF (r % 2 = 0) = (c \in {0, 1, 4, 5})
                                THEN <<"A">> ELSE <<"B">>
        /\ Cardinality({cell \in Cells : board[cell] = <<"A">>}) = 18
        /\ Cardinality({cell \in Cells : board[cell] = <<"B">>}) = 18
        /\ \A p \in Names : reserved[p] = 0 /\ captured[p] = 0
        /\ game_state = "IN PROGRESS"
        /\ current_player_turn = "p1"

\* the game as constructed, before any call
C16_Witness ==
    /\ call.op = "new_game"
    /\ moves = 0
    /\ board[<<0, 0>>] = <<"A">>
    /\ board[<<1, 0>>] = <<"B">>

\* C17: move execution: after an accepted move_piece of n pieces from S to
\* D, S holds its old pieces without the top n, D holds its old pieces
\* followed by those n pieces in their order, trimmed to the top 5 when
\* taller, and every other tile is unchanged.
C17_MoveExecution ==
    [][AcceptedMove' =>
          LET S == call'.from
              D == call'.to
              n == call'.n
              len == Len(board[S])
              moved == SubSeq(board[S], len - n + 1, len)
              tall == board[D] \o moved
              k == Len(tall) - 5
          IN  /\ S # D => board'[S] = SubSeq(board[S], 1, len - n)
              /\ board'[D] = IF k > 0 THEN SubSeq(tall, k + 1, Len(tall))
                             ELSE tall
              /\ \A cell \in Cells \ {S, D} : board'[cell] = board[cell]]_vars

\* C18: a call with a player name that is neither player's is an ordinary
\* rejection, a returned value, and leaves the game unchanged.
C18_UnknownPlayerRejected ==
    [][call'.player \notin Names =>
          (result' = "False" /\ UNCHANGED core)]_vars

\* C19: only the mover's counters change: a call changes a player's reserve
\* or capture count only when it is an accepted call by that player, so a
\* capture count reaches 6 only by that player's own move.
C19_OnlyMoverCounters ==
    [][\A q \in Names :
          /\ (reserved'[q] # reserved[q] \/ captured'[q] # captured[q]) =>
                (Accepted' /\ call'.player = q)
          /\ (captured[q] < 6 /\ captured'[q] >= 6) =>
                (Accepted' /\ call'.player = q)]_vars

\* an accepted call by a player who holds reserve and captured pieces, while
\* the other player holds some as well
C19_Witness ==
    /\ Accepted
    /\ \A q \in Names : reserved[q] > 0 /\ captured[q] > 0

\* C20: neither capture count ever decreases, and once the status has left
\* 'IN PROGRESS' it never becomes 'IN PROGRESS' again.
C20_Monotone ==
    [][/\ \A q \in Names : captured'[q] >= captured[q]
       /\ game_state # "IN PROGRESS" => game_state' # "IN PROGRESS"]_vars

\* a piece was played from reserve by the player who has not won, in a game
\* that was already won
C20_Witness ==
    /\ AcceptedReserve
    /\ game_state # "IN PROGRESS"
    /\ captured[call.player] < 6

====
